---- MODULE Spec2Model ----
(***************************************************************************)
(* Model of src/invert_logo.py: invert_image(image_path) opens the image   *)
(* at a path, converts it to RGBA, inverts the colour channels of every    *)
(* pixel whose alpha is not 0, puts the new data into the image and saves  *)
(* it over the same path.  Every Exception is caught and printed.          *)
(*                                                                         *)
(* The file at the path is modelled by what a decoder gets out of it: its  *)
(* container format, its pixel mode, its size and its pixel data.  Pillow  *)
(* picks the format to WRITE from the extension of the file name and the   *)
(* format to READ from the content, so the two are separate.               *)
(***************************************************************************)
EXTENDS Integers, Sequences, FiniteSets

VARIABLES
    file,      \* the content of the file at image_path
    ext,       \* the format the extension of image_path designates
    pc,        \* the position of the invocation in invert_image
    img,       \* local img
    datas,     \* local datas
    it,        \* number of items the for loop has taken from datas
    new_data,  \* local new_data
    exc,       \* the step whose exception is being handled ("none": no exception)
    printed,   \* the lines the current invocation has printed
    before,    \* history: the file when the current invocation was called
    decoded,   \* history: the RGBA buffer the current invocation decoded
    opens,     \* history: calls of Image.open in the current invocation
    writes,    \* history: times the current invocation opened the file for writing
    log        \* history: one record per returned invocation

vars == <<file, ext, pc, img, datas, it, new_data, exc, printed,
          before, decoded, opens, writes, log>>

----------------------------------------------------------------------------
(* Bounds and sample inputs *)

MaxPixels == 2
MaxRuns == 2
MaxChannel == 255

Colours == {<<255, 255, 255>>, <<10, 20, 30>>}
Alphas == {0, 128, 255}

Formats == {"PNG", "JPEG", "GIF"}
Exts == Formats \cup {"NONE"}

Sizes == {s \in (1..MaxPixels) \X (1..MaxPixels) : s[1] * s[2] <= MaxPixels}

----------------------------------------------------------------------------
(* Files *)

NoFile == [kind |-> "none", fmt |-> "-", mode |-> "-", size |-> <<0, 0>>, data |-> <<>>]
Garbage == [kind |-> "garbage", fmt |-> "-", mode |-> "-", size |-> <<0, 0>>, data |-> <<>>]

ImageFile(k, f, m, s, d) == [kind |-> k, fmt |-> f, mode |-> m, size |-> s, data |-> d]

\* The pixels a file of a format and mode can hold.
StoredPixels(f, m) ==
    CASE m = "RGB"  -> Colours
      [] m = "RGBA" -> {c \o <<a>> : c \in Colours, a \in Alphas}
      [] m = "P"    -> {c \o <<a>> : c \in Colours, a \in {0, MaxChannel}}

FormatModes == {<<"PNG", "RGBA">>, <<"PNG", "RGB">>, <<"JPEG", "RGB">>, <<"GIF", "P">>}

Buffers(s, px) == [1..(s[1] * s[2]) -> px]

ValidFiles ==
    UNION {UNION {{ImageFile("image", fm[1], fm[2], s, d) : d \in Buffers(s, StoredPixels(fm[1], fm[2]))}
                  : s \in Sizes} : fm \in FormatModes}

\* A file whose header identifies it but whose pixel data is cut short.
TruncatedFiles ==
    {ImageFile("truncated", fm[1], fm[2], <<1, 1>>, <<>>) : fm \in FormatModes}

InitFiles == {NoFile, Garbage} \cup TruncatedFiles \cup ValidFiles

NoImg == [format |-> "-", mode |-> "-", size |-> <<0, 0>>, data |-> <<>>, loaded |-> FALSE]

----------------------------------------------------------------------------
(* Pure functions *)

\* Image.convert("RGBA") on one pixel: a mode without alpha gets alpha 255.
ToRGBA(m, p) == IF m = "RGB" THEN Append(p, MaxChannel) ELSE p

ConvertRGBA(m, d) == [k \in 1..Len(d) |-> ToRGBA(m, d[k])]

\* Mutants of the loop body.
InvertItemLightOnly(item) ==
    IF item[4] = 0 THEN item
    ELSE IF item[1] + item[2] + item[3] > 3 * 127
         THEN <<MaxChannel - item[1], MaxChannel - item[2], MaxChannel - item[3], item[4]>>
         ELSE item

InvertItemAlways(item) ==
    <<MaxChannel - item[1], MaxChannel - item[2], MaxChannel - item[3], item[4]>>

\* The body of the for loop: the item appended to new_data for item.
InvertItem(item) ==
    IF item[4] = 0 THEN item
    ELSE <<MaxChannel - item[1], MaxChannel - item[2], MaxChannel - item[3], item[4]>>

\* Mutant: the format of the file that was opened.
SaveFormatOfContent(e, f) == f

\* img.save(image_path) with no format argument: the converted image has no
\* format of its own, the extension of the file name decides.
SaveFormat(e, f) == e

\* What the encoder of a format keeps of an RGBA pixel.
EncodePixel(f, p) ==
    IF f = "GIF" THEN <<p[1], p[2], p[3], IF p[4] = 0 THEN 0 ELSE MaxChannel>>
    ELSE p

EncodedMode(f) == IF f = "GIF" THEN "P" ELSE "RGBA"

Encode(f, im) ==
    ImageFile("image", f, EncodedMode(f), im.size,
              [k \in 1..Len(im.data) |-> EncodePixel(f, im.data[k])])

\* Decoding a file to an RGBA buffer, as Image.open(...).convert("RGBA") does.
DecodeFile(fl) == ConvertRGBA(fl.mode, fl.data)

Transform(d) == [k \in 1..Len(d) |-> InvertItem(d[k])]

----------------------------------------------------------------------------
(* The state machine *)

Init ==
    /\ file \in InitFiles
    /\ ext \in Exts
    /\ pc = "idle"
    /\ img = NoImg
    /\ datas = <<>>
    /\ it = 0
    /\ new_data = <<>>
    /\ exc = "none"
    /\ printed = <<>>
    /\ before = file
    /\ decoded = <<>>
    /\ opens = 0
    /\ writes = 0
    /\ log = <<>>

\* What a returned invocation leaves in the history.
Entry(out) ==
    [before |-> before, decoded |-> decoded, after |-> file, printed |-> out,
     failed |-> exc, opens |-> opens, writes |-> writes]

\* The locals of invert_image are gone once it returns.
Return(out) ==
    /\ log' = Append(log, Entry(out))
    /\ pc' = "idle"
    /\ img' = NoImg
    /\ datas' = <<>>
    /\ it' = 0
    /\ new_data' = <<>>
    /\ exc' = "none"
    /\ printed' = <<>>
    /\ decoded' = <<>>
    /\ opens' = 0
    /\ writes' = 0
    /\ UNCHANGED <<file, ext, before>>

\* invert_image(image_path) is called.
Call ==
    /\ pc = "idle"
    /\ Len(log) < MaxRuns
    /\ pc' = "open"
    /\ before' = file
    /\ UNCHANGED <<file, ext, img, datas, it, new_data, exc, printed, decoded,
                   opens, writes, log>>

\* Mutant: the path is opened for update, which creates a missing file and
\* empties an existing one.
OpenForWriting ==
    /\ pc = "open"
    /\ opens' = opens + 1
    /\ file' = Garbage
    /\ exc' = "open"
    /\ pc' = "except"
    /\ UNCHANGED <<ext, img, datas, it, new_data, printed, before, decoded, writes, log>>

\* Mutant: the path is opened in a mode that creates a missing file.
OpenCreatesMissing ==
    /\ pc = "open"
    /\ opens' = opens + 1
    /\ IF file.kind \in {"none", "garbage"}
       THEN /\ exc' = "open"
            /\ pc' = "except"
            /\ img' = img
            /\ file' = IF file.kind = "none" THEN Garbage ELSE file
       ELSE /\ img' = [format |-> file.fmt, mode |-> file.mode, size |-> file.size,
                       data |-> <<>>, loaded |-> FALSE]
            /\ pc' = "convert"
            /\ exc' = exc
            /\ file' = file
    /\ UNCHANGED <<ext, datas, it, new_data, printed, before, decoded, writes, log>>

\* img = Image.open(image_path): reads the header only; a missing file and a
\* file no decoder identifies raise.
Open ==
    /\ pc = "open"
    /\ opens' = opens + 1
    /\ IF file.kind \in {"none", "garbage"}
       THEN /\ exc' = "open"
            /\ pc' = "except"
            /\ img' = img
       ELSE /\ img' = [format |-> file.fmt, mode |-> file.mode, size |-> file.size,
                       data |-> <<>>, loaded |-> FALSE]
            /\ pc' = "convert"
            /\ exc' = exc
    /\ UNCHANGED <<file, ext, datas, it, new_data, printed, before, decoded, writes, log>>

\* img = img.convert("RGBA"): loads the pixel data (a truncated file raises)
\* and returns a new RGBA image of the same size, which has no format.
Convert ==
    /\ pc = "convert"
    /\ IF file.kind = "truncated"
       THEN /\ exc' = "convert"
            /\ pc' = "except"
            /\ UNCHANGED <<img, decoded>>
       ELSE /\ img' = [format |-> "None", mode |-> "RGBA", size |-> img.size,
                       data |-> ConvertRGBA(img.mode, file.data), loaded |-> TRUE]
            /\ decoded' = ConvertRGBA(img.mode, file.data)
            /\ pc' = "getdata"
            /\ exc' = exc
    /\ UNCHANGED <<file, ext, datas, it, new_data, printed, before, opens, writes, log>>

\* datas = img.getdata(); new_data = []
GetData ==
    /\ pc = "getdata"
    /\ datas' = img.data
    /\ new_data' = <<>>
    /\ it' = 0
    /\ pc' = "loop"
    /\ UNCHANGED <<file, ext, img, exc, printed, before, decoded, opens, writes, log>>

\* Mutant: a transparent item is skipped instead of appended.
LoopStepSkipsTransparent ==
    /\ pc = "loop"
    /\ it < Len(datas)
    /\ it' = it + 1
    /\ new_data' = IF datas[it + 1][4] = 0 THEN new_data
                   ELSE Append(new_data, InvertItem(datas[it + 1]))
    /\ UNCHANGED <<file, ext, pc, img, datas, exc, printed, before, decoded, opens, writes, log>>

\* One iteration of `for item in datas`.
LoopStep ==
    /\ pc = "loop"
    /\ it < Len(datas)
    /\ it' = it + 1
    /\ new_data' = Append(new_data, InvertItem(datas[it + 1]))
    /\ UNCHANGED <<file, ext, pc, img, datas, exc, printed, before, decoded, opens, writes, log>>

\* Mutant: the new data is never put into the image.
PutDataSkipped ==
    /\ pc = "loop"
    /\ it = Len(datas)
    /\ pc' = "save"
    /\ UNCHANGED <<file, ext, img, datas, it, new_data, exc, printed, before, decoded,
                   opens, writes, log>>

\* The loop is exhausted; img.putdata(new_data).
PutData ==
    /\ pc = "loop"
    /\ it = Len(datas)
    /\ img' = [img EXCEPT !.data = new_data]
    /\ pc' = "save"
    /\ UNCHANGED <<file, ext, datas, it, new_data, exc, printed, before, decoded,
                   opens, writes, log>>

\* Mutant: the success line is printed before the file is written.
SavePrintsFirst ==
    /\ pc = "save"
    /\ printed' = Append(printed, "success")
    /\ exc' = "save"
    /\ pc' = "except"
    /\ UNCHANGED <<file, ext, img, datas, it, new_data, before, decoded, opens, writes, log>>

\* img.save(image_path): an unknown extension raises before the file is
\* touched; otherwise the file is opened "w+b" (emptied) and the encoder of
\* the format runs; the JPEG encoder raises on an RGBA image.
Save ==
    /\ pc = "save"
    /\ LET f == SaveFormat(ext, before.fmt) IN
         CASE f = "NONE" ->
                /\ exc' = "save"
                /\ pc' = "except"
                /\ UNCHANGED <<file, writes>>
           [] f = "JPEG" ->
                /\ writes' = writes + 1
                /\ file' = Garbage
                /\ exc' = "save"
                /\ pc' = "except"
           [] OTHER ->
                /\ writes' = writes + 1
                /\ file' = Encode(f, img)
                /\ pc' = "print"
                /\ exc' = exc
    /\ UNCHANGED <<ext, img, datas, it, new_data, printed, before, decoded, opens, log>>

\* img.save(image_path) fails in the filesystem: the open is refused (the
\* file is untouched) or the write stops part-way (the file is emptied, or
\* holds a header and too little data).
SaveIOError ==
    /\ pc = "save"
    /\ SaveFormat(ext, before.fmt) \in {"PNG", "GIF"}
    /\ \/ UNCHANGED <<file, writes>>
       \/ /\ writes' = writes + 1
          /\ file' \in {Garbage,
                        ImageFile("truncated", SaveFormat(ext, before.fmt),
                                  EncodedMode(SaveFormat(ext, before.fmt)), img.size, <<>>)}
    /\ exc' = "save"
    /\ pc' = "except"
    /\ UNCHANGED <<ext, img, datas, it, new_data, printed, before, decoded, opens, log>>

\* A step before the save raises for a reason outside the image (the open is
\* refused, memory runs out).
Raise ==
    /\ pc \in {"open", "convert", "getdata", "loop"}
    /\ exc' = pc
    /\ pc' = "except"
    /\ UNCHANGED <<file, ext, img, datas, it, new_data, printed, before, decoded,
                   opens, writes, log>>

\* print(f"Successfully inverted colors for {image_path}"), then return.
PrintSuccess ==
    /\ pc = "print"
    /\ Return(Append(printed, "success"))

\* Mutant: the handler starts the pipeline again.
ExceptRetries ==
    /\ pc = "except"
    /\ pc' = "open"
    /\ exc' = "none"
    /\ printed' = Append(printed, "error")
    /\ UNCHANGED <<file, ext, img, datas, it, new_data, before, decoded, opens, writes, log>>

\* except Exception as e: print(f"Error processing image: {e}"), then return.
Except ==
    /\ pc = "except"
    /\ Return(Append(printed, "error"))

Next ==
    \/ Call
    \/ Open
    \/ Convert
    \/ GetData
    \/ LoopStep
    \/ PutData
    \/ Save
    \/ SaveIOError
    \/ Raise
    \/ PrintSuccess
    \/ Except

Spec == Init /\ [][Next]_vars

----------------------------------------------------------------------------
(* Vocabulary of the properties *)

\* The inversion a pixel is expected to get.
ExpectedPixel(p) ==
    IF p[4] = 0 THEN p ELSE <<255 - p[1], 255 - p[2], 255 - p[3], p[4]>>

ExpectedBuffer(d) == [k \in 1..Len(d) |-> ExpectedPixel(d[k])]

\* The invocation holds the buffer it produced: putdata has run.
Produced == pc \in {"save", "print"} \/ (pc = "except" /\ exc = "save")

Succeeded(e) == e.printed = <<"success">>

Entries == {log[k] : k \in 1..Len(log)}

----------------------------------------------------------------------------
C2_TransparentUnchanged ==
    Produced =>
       \A k \in 1..Len(decoded) :
          decoded[k][4] = 0 => (k <= Len(img.data) /\ img.data[k] = decoded[k])

C2_Witness ==
    /\ pc = "print"
    /\ \E k \in 1..Len(decoded) : decoded[k] = <<10, 20, 30, 0>> /\ img.data[k] = <<10, 20, 30, 0>>

\* C7: the operation never changes the width or the height; the produced
\* buffer has one pixel per input pixel, in the same row-major order, the
\* pixel at each position being the inversion of the input pixel there.
C7_DimensionsAndOrderKept ==
    /\ Produced =>
         /\ img.size = before.size
         /\ Len(img.data) = img.size[1] * img.size[2]
         /\ Len(img.data) = Len(decoded)
         /\ \A k \in 1..Len(decoded) : img.data[k] = ExpectedPixel(decoded[k])
    /\ \A e \in Entries :
         Succeeded(e) =>
            /\ e.after.size = e.before.size
            /\ Len(e.after.data) = Len(e.before.data)

C7_Witness ==
    /\ pc = "print"
    /\ before.size = <<1, 2>>
    /\ img.size = <<1, 2>>
    /\ decoded = <<(<<10, 20, 30, 0>>), (<<255, 255, 255, 128>>)>>
    /\ img.data = <<(<<10, 20, 30, 0>>), (<<0, 0, 0, 128>>)>>

\* C3 as claimed: after any run that reports success, decoding the file
\* yields exactly the inverted buffer, with no change from re-encoding.
C3_RoundTripAnyFormat ==
    \A e \in Entries :
       Succeeded(e) => DecodeFile(e.after) = ExpectedBuffer(e.decoded)

\* C3 (amended): after a run that reports success on a path whose extension
\* designates PNG, decoding the file yields exactly the inverted buffer:
\* pixels with alpha 0 identical, the others inverted, nothing else changed.
C3_RoundTripPNG ==
    /\ (pc = "print" /\ ext = "PNG") => DecodeFile(file) = ExpectedBuffer(decoded)
    /\ \A e \in Entries :
         (Succeeded(e) /\ ext = "PNG") => DecodeFile(e.after) = ExpectedBuffer(e.decoded)

C3_Witness ==
    /\ ext = "PNG"
    /\ Len(log) = 1
    /\ Succeeded(log[1])
    /\ log[1].decoded = <<(<<255, 255, 255, 128>>)>>
    /\ DecodeFile(file) = <<(<<0, 0, 0, 128>>)>>

\* C8 as claimed: a successful overwrite leaves content in the format the
\* original file had, whatever that format was.
C8_FormatOfOriginalKept ==
    \A e \in Entries :
       Succeeded(e) => (e.after.kind = "image" /\ e.after.fmt = e.before.fmt)

\* C8 (amended): a successful overwrite leaves content in the format the
\* extension of the path designates, which is the original's format when the
\* original's format is the one its extension designates; a path whose
\* extension designates JPEG never reports success.
C8_FormatOfExtension ==
    \A e \in Entries :
       Succeeded(e) =>
          /\ e.after.kind = "image"
          /\ e.after.fmt = ext
          /\ e.before.fmt = ext => e.after.fmt = e.before.fmt
          /\ ext # "JPEG"

C8_Witness ==
    /\ ext = "PNG"
    /\ Len(log) = 1
    /\ Succeeded(log[1])
    /\ log[1].before.fmt = "JPEG"
    /\ file.fmt = "PNG"

\* The buffers an invocation holds: the decoded one and the produced one.
HeldBuffers == {decoded} \cup (IF Produced THEN {img.data} ELSE {})

\* C6 as claimed: the transform applied twice gives the buffer back, so two
\* successive successful runs on the same file restore the pixel values the
\* first of them decoded.
C6_TwoRunsRestoreAnyFormat ==
    /\ \A b \in HeldBuffers : Transform(Transform(b)) = b
    /\ \A k \in 1..(Len(log) - 1) :
         (Succeeded(log[k]) /\ Succeeded(log[k + 1])) =>
            DecodeFile(log[k + 1].after) = log[k].decoded

\* C6 (amended): the transform applied twice to any RGBA buffer gives the
\* buffer back exactly, and two successive successful runs on the same file
\* restore the pixel values the first of them decoded when the extension of
\* the path designates PNG.
C6_InvolutionAndTwoRunsPNG ==
    /\ \A b \in HeldBuffers : Transform(Transform(b)) = b
    /\ \A k \in 1..(Len(log) - 1) :
         (Succeeded(log[k]) /\ Succeeded(log[k + 1]) /\ ext = "PNG") =>
            /\ log[k + 1].decoded = ExpectedBuffer(log[k].decoded)
            /\ DecodeFile(log[k + 1].after) = log[k].decoded

C6_Witness ==
    /\ ext = "PNG"
    /\ Len(log) = 2
    /\ Succeeded(log[1])
    /\ Succeeded(log[2])
    /\ log[1].decoded = <<(<<10, 20, 30, 128>>), (<<255, 255, 255, 0>>)>>
    /\ log[2].decoded = <<(<<245, 235, 225, 128>>), (<<255, 255, 255, 0>>)>>
    /\ DecodeFile(file) = log[1].decoded

\* C4: called on a path where no file exists, the run ends with an error
\* message, never a success message, and no file exists there afterwards.
C4_MissingFileReportsError ==
    /\ (pc # "idle" /\ before.kind = "none") =>
          /\ file.kind = "none"
          /\ pc \in {"open", "except"}
          /\ writes = 0
    /\ \A e \in Entries :
          e.before.kind = "none" =>
             /\ e.printed = <<"error">>
             /\ e.after.kind = "none"

C4_Witness ==
    /\ Len(log) = 1
    /\ log[1].before.kind = "none"
    /\ log[1].failed = "open"
    /\ log[1].opens = 1
    /\ file.kind = "none"

\* C5: every failure takes the one failure path: the exception is caught
\* where it is raised in the body, exactly one error line and no success
\* line is printed, no step is done a second time, and the invocation
\* returns normally, as a successful one does with its one success line.
C5_SingleFailurePath ==
    /\ exc # "none" <=> pc = "except"
    /\ pc = "except" => (printed = <<>> /\ ENABLED Except)
    /\ pc # "idle" => ENABLED Next
    /\ opens <= 1
    /\ writes <= 1
    /\ \A e \in Entries :
         /\ e.failed # "none" => e.printed = <<"error">>
         /\ e.failed = "none" => e.printed = <<"success">>
         /\ e.opens <= 1
         /\ e.writes <= 1

C5_Witness ==
    /\ pc = "idle"
    /\ Len(log) = 2
    /\ log[1].failed = "save"
    /\ log[1].printed = <<"error">>
    /\ log[2].failed = "open"
    /\ log[2].printed = <<"error">>

\* C9: an invocation is one pass decode, transform, overwrite, report: the
\* file is opened for writing at most once and only after every pixel has
\* been transformed, and the success line is printed only after the
\* overwrite completed, never together with an error line.
C9_LinearPipeline ==
    /\ opens <= 1
    /\ writes <= 1
    /\ pc \in {"open", "convert", "getdata", "loop", "save"} => (writes = 0 /\ printed = <<>>)
    /\ writes = 1 =>
         /\ pc \in {"print", "except"}
         /\ it = Len(datas)
         /\ new_data = ExpectedBuffer(decoded)
         /\ img.data = new_data
    /\ pc = "print" => (writes = 1 /\ exc = "none" /\ file = Encode(ext, img))
    /\ \A e \in Entries :
         /\ Len(e.printed) = 1
         /\ Succeeded(e) => (e.writes = 1 /\ e.opens = 1 /\ e.failed = "none" /\ e.after.kind = "image")

C9_Witness ==
    /\ Len(log) = 1
    /\ Succeeded(log[1])
    /\ log[1].writes = 1
    /\ Len(log[1].decoded) = 2
    /\ file # log[1].before

\* C10: a failure at a step before the save (open, decode, conversion, pixel
\* transform) leaves the file as it was when the invocation was called; only
\* the save alters the file.
C10_FileIntactBeforeSave ==
    /\ pc \in {"open", "convert", "getdata", "loop", "save"} => file = before
    /\ (pc = "except" /\ exc # "save") => file = before
    /\ (pc # "idle" /\ file # before) => (writes = 1 /\ pc \in {"print", "except"})
    /\ \A e \in Entries :
         /\ e.failed \notin {"none", "save"} => (e.after = e.before /\ e.writes = 0)
         /\ e.after # e.before => e.writes = 1

C10_Witness ==
    /\ Len(log) = 2
    /\ log[1].before.kind = "image"
    /\ log[1].failed = "loop"
    /\ log[1].after = log[1].before
    /\ log[2].failed = "save"
    /\ log[2].after.kind = "garbage"

====
